---------------------------- MODULE Spec2Model ----------------------------
(***************************************************************************)
(* The Cameca PeakSight WDS decoder of lib/parsers/cameca.py as a state    *)
(* machine: one parse of one in-memory byte buffer (CamecaWDS.__init__),   *)
(* stepping through the reads and skips it performs on the BytesIO cursor. *)
(* Bytes are integers 0..255, text is a sequence of code points, and a     *)
(* raised Python exception ends the parse in pc = "raised".                *)
(***************************************************************************)
EXTENDS Integers, Sequences, FiniteSets, TLC

(* ------------------------------ bounds -------------------------------- *)

\* largest number of dataset items in a generated well-formed file
MaxItems == 2
\* largest number of measurement records in a generated dataset item
MaxRecs == 2

(* ------------------- layout constants of the source ------------------- *)

PrologueLen == 12
HeaderSpacer == 28
ChangeHeadLen == 12
WDSResults == 6
TopBlockLen == 28
WDSStruct == 11
ItemStruct == 17
ItemSkipA == 4
ItemAxesLen == 32
ItemSkipB == 12
ItemDwellLen == 8
ItemSkipC == 4
ZAxisCount == 49
ItemSkipD == 40
ItemTrailer == 316
RecFieldsLen == 76
RecSkip == 24
RecTailLen == 24
RecTrailer == 124
Float32Size == 4
I32Len == 4

ZAxisLen == ZAxisCount * I32Len

(* ----------------------------- arithmetic ----------------------------- *)

Min(x, y) == IF x < y THEN x ELSE y
Max(x, y) == IF x > y THEN x ELSE y

RECURSIVE SumSeq(_)
SumSeq(s) == IF s = <<>> THEN 0 ELSE Head(s) + SumSeq(Tail(s))

\* the concatenation of ss[lo], ..., ss[hi]
RECURSIVE FlattenRange(_, _, _)
FlattenRange(ss, lo, hi) ==
    IF lo > hi THEN <<>>
    ELSE IF lo = hi THEN ss[lo]
    ELSE LET mid == (lo + hi) \div 2
         IN FlattenRange(ss, lo, mid) \o FlattenRange(ss, mid + 1, hi)

Flatten(ss) == FlattenRange(ss, 1, Len(ss))

(* ----------------------- struct.unpack primitives --------------------- *)

\* struct '<i': a little-endian two's-complement 32-bit integer
I32(bs) ==
    bs[1] + 256 * bs[2] + 65536 * bs[3]
      + 16777216 * (IF bs[4] >= 128 THEN bs[4] - 256 ELSE bs[4])

\* the j-th 4-byte word of a block, as '<i' (float fields keep their bits)
Word(bs, j) == I32(SubSeq(bs, 4 * j - 3, 4 * j))

\* k consecutive 4-byte words of a block
Words(bs, k) == [j \in 1..k |-> Word(bs, j)]

(* ------------------------------ BytesIO ------------------------------- *)

\* bytes left between the cursor and the end of the buffer (none past it)
Avail(b, p) == IF p >= Len(b) THEN 0 ELSE Len(b) - p

\* number of bytes BytesIO.read(n) returns: all that is left when n < 0,
\* otherwise at most n
ReadLen(b, p, n) == IF n < 0 THEN Avail(b, p) ELSE Min(n, Avail(b, p))

\* the bytes BytesIO.read(n) returns at cursor p
ReadBytes(b, p, n) == SubSeq(b, p + 1, p + ReadLen(b, p, n))

\* seek with the whence argument left out: an absolute position
SeekAbsolute(p, n) == n

\* fbio.seek(n, 1): n bytes on from the cursor, wherever the buffer ends
Seek(p, n) == p + n

(* ------------------------------- text --------------------------------- *)

HexDigit(n) == IF n < 10 THEN 48 + n ELSE 87 + n

\* the quote character Python's repr of a bytes object picks
ReprQuote(bs) ==
    IF (\E i \in 1..Len(bs) : bs[i] = 39) /\ ~(\E i \in 1..Len(bs) : bs[i] = 34)
    THEN 34 ELSE 39

\* one byte inside the repr of a bytes object
ReprByte(c, q) ==
    IF c = q \/ c = 92 THEN <<92, c>>
    ELSE IF c = 9 THEN <<92, 116>>
    ELSE IF c = 10 THEN <<92, 110>>
    ELSE IF c = 13 THEN <<92, 114>>
    ELSE IF c < 32 \/ c >= 127 THEN <<92, 120, HexDigit(c \div 16), HexDigit(c % 16)>>
    ELSE <<c>>

\* str(b) of a bytes object b under Python 3: its repr, b'...'
PyStr(bs) ==
    LET q == ReprQuote(bs)
    IN <<98, q>> \o Flatten([i \in 1..Len(bs) |-> ReprByte(bs[i], q)]) \o <<q>>

\* bytes.decode(): defined here on ASCII bytes and on the byte 0xFF, which
\* no UTF-8 text contains; the generated inputs hold no other byte >= 0x80
DecodeOk(bs) == \A i \in 1..Len(bs) : bs[i] < 128

(* --------------------------- lookup table ----------------------------- *)

value_map ==
    [k \in 1..10 |->
        CASE k = 1 -> "WDS setup"
          [] k = 2 -> "Image/maping setup"
          [] k = 3 -> "Calibration setup"
          [] k = 4 -> "Quanti setup"
          [] k = 5 -> "unknown"
          [] k = 6 -> "WDS results"
          [] k = 7 -> "Image/maping results"
          [] k = 8 -> "Calibration results"
          [] k = 9 -> "Quanti results"
          [] k = 10 -> "Peak overlap table"]

\* cls.value_map[sx_type]: a KeyError when the code is not a key
to_type(sx_type) ==
    IF sx_type \in DOMAIN value_map
    THEN [ok |-> TRUE, name |-> value_map[sx_type]]
    ELSE [ok |-> FALSE, name |-> ""]

\* line 138: the magic tag comparison
Fxs == <<102, 120, 115>>

\* a comparison of the first tag byte alone
MagicOkFirstByte(b) == b[1] = Fxs[1]

MagicOk(b) == b = Fxs

\* a file-type test that lets every results file through
IsAnyResults(t) == t >= WDSResults

\* line 162: the file-type test of the WDS decoder
IsWDSResults(t) == t = WDSResults

\* the conversion with 8-byte elements (dtype float64)
fromstring64(bs) ==
    IF Len(bs) % 8 # 0
    THEN [ok |-> FALSE, data |-> <<>>]
    ELSE [ok |-> TRUE,
          data |-> [j \in 1..(Len(bs) \div 8) |-> SubSeq(bs, 8 * (j - 1) + 1, 8 * j)]]

\* np.fromstring(bytes, dtype=np.float32): a ValueError unless the byte
\* count is a multiple of the element size, else one element per 4 bytes
\* (each element is kept as the bit pattern of its 4 bytes)
fromstring(bs) ==
    IF Len(bs) % Float32Size # 0
    THEN [ok |-> FALSE, data |-> <<>>]
    ELSE [ok |-> TRUE,
          data |-> [j \in 1..(Len(bs) \div Float32Size) |->
                       SubSeq(bs, Float32Size * (j - 1) + 1, Float32Size * j)]]

\* read_c_hash_string(stream) at cursor p: the length, then read(str_len)
\* and str() of whatever bytes came back
read_c_hash_string(b, p) ==
    LET raw == ReadBytes(b, p, I32Len)
        p1 == p + Len(raw)
    IN IF Len(raw) # I32Len
       THEN [ok |-> FALSE, pos |-> p1, str |-> <<>>, str_len |-> 0,
             nread |-> 0, left |-> 0]
       ELSE LET str_len == I32(raw)
                payload == ReadBytes(b, p1, str_len)
            IN [ok |-> TRUE, pos |-> p1 + Len(payload), str |-> PyStr(payload),
                str_len |-> str_len, nread |-> Len(payload),
                left |-> Avail(b, p1)]


(* ----------------------- the files given to parse --------------------- *)
(* The byte layout PeakSight writes, as the decoder expects it.  A file   *)
(* description keeps every declared length and count apart from the       *)
(* payload it describes, so that a description can be inconsistent.       *)

I32Bytes(n) ==
    LET b0 == n % 256
        n1 == (n - b0) \div 256
        b1 == n1 % 256
        n2 == (n1 - b1) \div 256
        b2 == n2 % 256
        n3 == (n2 - b2) \div 256
    IN <<b0, b1, b2, n3 % 256>>

Zeros(n) == [i \in 1..n |-> 0]

\* k 4-byte fields holding 1, 2, ..., k
Fields(k) == [i \in 1..(4 * k) |-> IF i % 4 = 1 THEN (i + 3) \div 4 ELSE 0]

EncRec(r) ==
    Fields(19) \o Zeros(24) \o Fields(5) \o I32Bytes(r.size) \o r.data \o Zeros(124)

EncItem(it) ==
    I32Bytes(it.struct_type) \o Zeros(4) \o Fields(8) \o Zeros(12) \o Fields(2)
      \o Zeros(4) \o Fields(49) \o Zeros(40)
      \o I32Bytes(it.cond_len) \o it.cond
      \o I32Bytes(it.n_of_items)
      \o Flatten([j \in 1..Len(it.recs) |-> EncRec(it.recs[j])])
      \o I32Bytes(it.name_len) \o it.name \o Zeros(316)

EncChange(ch) == Zeros(8) \o I32Bytes(ch.change_len) \o ch.comment

EncHeader(f) ==
    <<f.a>> \o f.tag \o I32Bytes(f.version) \o I32Bytes(f.d) \o f.comment
      \o Zeros(28) \o I32Bytes(f.n_changes)
      \o Flatten([j \in 1..Len(f.changes) |-> EncChange(f.changes[j])])

EncFile(f) ==
    EncHeader(f) \o I32Bytes(f.data_type) \o Zeros(20) \o I32Bytes(f.number_of_items)
      \o Flatten([j \in 1..Len(f.items) |-> EncItem(f.items[j])])

GoodRec(size) == [size |-> size, data |-> [i \in 1..size |-> i]]

\* the data_array_size of the j-th record of a generated item: 8, 0, 4, 8, ...
RecSize(j) == 4 * ((j + 1) % 3)

\* (condition_file, name) payloads: empty ones, and "c'" with "nm"
StrPairs == { << <<>>, <<>> >>, << <<99, 39>>, <<110, 109>> >> }

GoodItem(sp, n) ==
    [struct_type |-> 17,
     cond_len |-> Len(sp[1]), cond |-> sp[1],
     n_of_items |-> n, recs |-> [j \in 1..n |-> GoodRec(RecSize(j))],
     name_len |-> Len(sp[2]), name |-> sp[2]]

GoodItems == {GoodItem(sp, n) : sp \in StrPairs, n \in 0..MaxRecs}

ItemSeqs == UNION {[1..n -> GoodItems] : n \in 0..MaxItems}

GoodChange(txt) == [change_len |-> Len(txt), comment |-> txt]

ChangeLogs ==
    { <<>>, <<GoodChange(<<97>>)>>, <<GoodChange(<<>>), GoodChange(<<97, 98>>)>> }

GoodFile(comment, changes, items) ==
    [a |-> 6, tag |-> Fxs, version |-> 1,
     d |-> Len(comment), comment |-> comment,
     n_changes |-> Len(changes), changes |-> changes,
     data_type |-> 11,
     number_of_items |-> Len(items), items |-> items]

WellFormedFiles ==
    {GoodFile(<<116>>, <<>>, its) : its \in ItemSeqs}
      \cup {GoodFile(c, chs, <<>>) : c \in {<<>>, <<116>>}, chs \in ChangeLogs}

\* a description is well formed when every declared value matches its payload
WellFormed(f) ==
    /\ f.a = 6 /\ f.tag = Fxs /\ f.data_type = 11
    /\ f.d = Len(f.comment) /\ DecodeOk(f.comment)
    /\ f.n_changes = Len(f.changes)
    /\ \A j \in 1..Len(f.changes) :
          /\ f.changes[j].change_len = Len(f.changes[j].comment)
          /\ DecodeOk(f.changes[j].comment)
    /\ f.number_of_items = Len(f.items)
    /\ \A i \in 1..Len(f.items) :
          LET it == f.items[i]
          IN /\ it.struct_type = 17
             /\ it.cond_len = Len(it.cond) /\ it.name_len = Len(it.name)
             /\ it.n_of_items = Len(it.recs)
             /\ \A j \in 1..Len(it.recs) :
                   /\ it.recs[j].size = Len(it.recs[j].data)
                   /\ it.recs[j].size % 4 = 0

\* the files the damaged ones are made from
TinyFile == GoodFile(<<116>>, <<GoodChange(<<97>>)>>, <<>>)
OneItemFile == GoodFile(<<116>>, <<>>, <<GoodItem(<< <<99, 39>>, <<110, 109>> >>, 1)>>)
TwoItemFile ==
    GoodFile(<<>>, <<>>, <<GoodItem(<< <<99, 39>>, <<110, 109>> >>, 1),
                           GoodItem(<< <<>>, <<>> >>, 0)>>)

BadTags == { <<120, 121, 122>>, <<102, 120, 116>>, <<70, 120, 115>> }
TypeCodes == {0, 1, 5, 7, 10, 11, 255}
BadStructs == {0, 17, -1}
BadLens == {-1, -5, 1, 3, 5000}
BadSizes == {-1, -4, 4, 6, 12, 5000}
BadCounts == {-1, 0, 2}

HeaderDamage(f) ==
    {[f EXCEPT !.tag = t] : t \in BadTags}
      \cup {[f EXCEPT !.a = c] : c \in TypeCodes}
      \cup {[f EXCEPT !.data_type = v] : v \in BadStructs}
      \cup {[f EXCEPT !.d = v] : v \in BadLens}
      \cup {[f EXCEPT !.n_changes = v] : v \in BadCounts}
      \cup {[f EXCEPT !.comment = <<255>>]}
      \cup {[f EXCEPT !.changes[1].comment = <<255>>]}
      \cup {[f EXCEPT !.number_of_items = v] : v \in BadCounts}

ItemDamage(f) ==
    UNION {
      {[f EXCEPT !.items[i].struct_type = v] : v \in {0, 11}}
        \cup {[f EXCEPT !.items[i].cond_len = v] : v \in BadLens}
        \cup {[f EXCEPT !.items[i].name_len = v] : v \in BadLens}
        \cup {[f EXCEPT !.items[i].n_of_items = v] : v \in BadCounts}
      : i \in 1..Len(f.items)}
      \cup {[f EXCEPT !.items[1].recs[1].size = v] : v \in BadSizes}
      \cup {[f EXCEPT !.number_of_items = v] : v \in {-1, 1, 3}}
      \cup {[f EXCEPT !.tag = t] : t \in BadTags}
      \cup {[f EXCEPT !.a = c] : c \in TypeCodes}
      \cup {[f EXCEPT !.data_type = v] : v \in BadStructs}

\* an input is a file description and the number of its bytes that exist
Whole(fs) == {[file |-> f, cut |-> Len(EncFile(f))] : f \in fs}
Prefixes(fs) == UNION {{[file |-> f, cut |-> n] : n \in 0..Len(EncFile(f))} : f \in fs}

Inputs ==
    Whole(WellFormedFiles)
      \cup Prefixes(HeaderDamage(TinyFile))
      \cup Whole(ItemDamage(TwoItemFile))
      \cup Prefixes({OneItemFile})

(* ------------------------------- state -------------------------------- *)

VARIABLES
    input,      \* the file description and cut the buffer was made from
    buf,        \* self.fbio: the bytes of the file
    pos,        \* self.fbio: the cursor, fbio.tell()
    pc,         \* where the parse stands
    exc,        \* the exception raised, if any
    local,      \* local variables of the running methods
    self,       \* the attributes of the CamecaWDS object
    item,       \* the WDSDatasetItem under construction
    rec,        \* the dict read_item is filling
    returned,   \* what the caller of CamecaWDS(filename) holds
    log         \* history: offsets and declared values seen by the reads

vars == <<input, buf, pos, pc, exc, local, self, item, rec, returned, log>>

NoExc == [type |-> "", kind |-> "", value |-> 0, address |-> 0, where |-> ""]

NoItem ==
    [metadata |-> [axes |-> <<>>, dwell |-> <<>>, z_axis |-> <<>>,
                   condition_file |-> <<>>],
     data |-> <<>>, name |-> <<>>]

NoRec == [head |-> <<>>, tail |-> <<>>, data_array_size |-> 0, data |-> <<>>,
          complete |-> FALSE]

NoStr == [seen |-> FALSE, at |-> 0, ok |-> FALSE, pos |-> 0, str |-> <<>>,
          str_len |-> 0, nread |-> 0, left |-> 0]

NoArr == [seen |-> FALSE, size |-> 0, left |-> 0, after |-> 0, nread |-> 0]

Init ==
    /\ input \in Inputs
    /\ buf = SubSeq(EncFile(input.file), 1, input.cut)
    /\ pos = input.cut          \* fbio.write(fn.read()) leaves the cursor at the end
    /\ pc = "start"
    /\ exc = NoExc
    /\ local = [a |-> 0, c |-> 0, d |-> 0, n_changes |-> 0, n_of_items |-> 0]
    /\ self = [cameca_bin_file_type |-> -1, file_type |-> "", file_version |-> 0,
               file_comment |-> <<>>, changes |-> <<>>,
               number_of_items |-> 0, datasets |-> <<>>]
    /\ item = NoItem
    /\ rec = NoRec
    /\ returned = <<>>
    /\ log = [headerEnd |-> -1, itemStart |-> <<>>, itemEnd |-> <<>>,
              counts |-> <<>>, str |-> NoStr, arr |-> NoArr]

\* raise: the exception class, the error kind it stands for, the value and
\* address its message carries, and the step that raised it
Raise(type, kind, value, address, where) ==
    /\ pc' = "raised"
    /\ exc' = [type |-> type, kind |-> kind, value |-> value,
               address |-> address, where |-> where]

\* struct.unpack on a buffer shorter than the format: struct.error
RaiseEof(where) == Raise("struct.error", "UnexpectedEof", 0, 0, where)

Goto(label) == pc' = label /\ exc' = exc

(* ----------------------- CamecaBase._read_the_header ------------------ *)

\* lines 136-139: seek(0), the 12-byte prologue, the magic tag
ReadPrologue ==
    /\ pc = "start"
    /\ LET raw == ReadBytes(buf, 0, PrologueLen)
       IN /\ pos' = Len(raw)
          /\ IF Len(raw) # PrologueLen
             THEN RaiseEof("start") /\ local' = local
             ELSE /\ local' = [local EXCEPT !.a = raw[1],
                                            !.c = I32(SubSeq(raw, 5, 8)),
                                            !.d = I32(SubSeq(raw, 9, 12))]
                  /\ IF MagicOk(SubSeq(raw, 2, 4))
                     THEN Goto("to_type")
                     ELSE Raise("IOError", "BadMagic", 0, 0, "start")
    /\ UNCHANGED <<input, buf, self, item, rec, returned, log>>

\* lines 140-142: the type code, its name from the table, the version
ToType ==
    /\ pc = "to_type"
    /\ LET t == to_type(local.a)
       IN IF t.ok
          THEN /\ self' = [self EXCEPT !.cameca_bin_file_type = local.a,
                                       !.file_type = t.name,
                                       !.file_version = local.c]
               /\ Goto("comment")
          ELSE /\ self' = [self EXCEPT !.cameca_bin_file_type = local.a]
               /\ Raise("KeyError", "UnknownCode", local.a, 0, "to_type")
    /\ UNCHANGED <<input, buf, pos, local, item, rec, returned, log>>

\* lines 143-146: the comment, the 0x1C spacer, the change count
ReadComment ==
    /\ pc = "comment"
    /\ LET raw == ReadBytes(buf, pos, local.d)
           p1 == pos + Len(raw)
           p2 == Seek(p1, HeaderSpacer)
           cnt == ReadBytes(buf, p2, I32Len)
       IN IF ~DecodeOk(raw)
          THEN /\ pos' = p1
               /\ Raise("UnicodeDecodeError", "", 0, 0, "comment")
               /\ UNCHANGED <<self, local>>
          ELSE /\ pos' = p2 + Len(cnt)
               /\ IF Len(cnt) # I32Len
                  THEN /\ self' = [self EXCEPT !.file_comment = raw]
                       /\ RaiseEof("comment")
                       /\ local' = local
                  ELSE /\ self' = [self EXCEPT !.file_comment = raw,
                                               !.changes = <<>>]
                       /\ local' = [local EXCEPT !.n_changes = I32(cnt)]
                       /\ Goto("changes")
    /\ UNCHANGED <<input, buf, item, rec, returned, log>>

\* lines 147-151: one turn of the change-log loop (the timestamp is kept as
\* the 8 FILETIME bytes)
ReadChange ==
    /\ pc = "changes"
    /\ Len(self.changes) < local.n_changes
    /\ LET raw == ReadBytes(buf, pos, ChangeHeadLen)
           p1 == pos + Len(raw)
       IN IF Len(raw) # ChangeHeadLen
          THEN pos' = p1 /\ RaiseEof("changes") /\ self' = self
          ELSE LET change_len == I32(SubSeq(raw, 9, 12))
                   comment == ReadBytes(buf, p1, change_len)
               IN /\ pos' = p1 + Len(comment)
                  /\ IF DecodeOk(comment)
                     THEN /\ self' = [self EXCEPT !.changes =
                                         Append(@, <<SubSeq(raw, 1, 8), comment>>)]
                          /\ Goto("changes")
                     ELSE /\ self' = self
                          /\ Raise("UnicodeDecodeError", "", 0, 0, "changes")
    /\ UNCHANGED <<input, buf, local, item, rec, returned, log>>

(* --------------------------- CamecaWDS.__init__ ----------------------- *)

\* lines 161-165: the header is read; the file must be a WDS results file
CheckFileType ==
    /\ pc = "changes"
    /\ Len(self.changes) >= local.n_changes
    /\ log' = [log EXCEPT !.headerEnd = pos]
    /\ IF IsWDSResults(self.cameca_bin_file_type)
       THEN Goto("top")
       ELSE Raise("IOError", "WrongFileType", self.cameca_bin_file_type, 0, "check_type")
    /\ UNCHANGED <<input, buf, pos, local, self, item, rec, returned>>

\* lines 166-172: the 28-byte block, its discriminator, the item count
ReadTopBlock ==
    /\ pc = "top"
    /\ LET raw == ReadBytes(buf, pos, TopBlockLen)
           p1 == pos + Len(raw)
       IN /\ pos' = p1
          /\ IF Len(raw) # TopBlockLen
             THEN RaiseEof("top") /\ self' = self
             ELSE LET data_type == Word(raw, 1)
                  IN IF data_type # WDSStruct
                     THEN /\ self' = [self EXCEPT !.number_of_items = Word(raw, 7)]
                          /\ Raise("RuntimeError", "UnexpectedStructType",
                                   data_type, p1, "top")
                     ELSE /\ self' = [self EXCEPT !.number_of_items = Word(raw, 7),
                                                  !.datasets = <<>>]
                          /\ Goto("items")
    /\ UNCHANGED <<input, buf, local, item, rec, returned, log>>

\* a loop that stops one item early
MoreItemsButLast == Len(self.datasets) + 1 < self.number_of_items

\* line 173: the loop over the declared items has turns left
MoreItems == Len(self.datasets) < self.number_of_items

(* -------------------------- WDSDatasetItem.__init__ ------------------- *)

\* lines 180-185: the item's discriminator, then 4 unknown bytes
ReadItemStruct ==
    /\ pc = "items"
    /\ MoreItems
    /\ LET raw == ReadBytes(buf, pos, I32Len)
           p1 == pos + Len(raw)
       IN /\ log' = [log EXCEPT !.itemStart = Append(@, pos)]
          /\ IF Len(raw) # I32Len
             THEN pos' = p1 /\ RaiseEof("item_struct")
             ELSE IF I32(raw) # ItemStruct
             THEN /\ pos' = p1
                  /\ Raise("IOError", "UnexpectedStructType", I32(raw), 0, "item_struct")
             ELSE pos' = Seek(p1, ItemSkipA) /\ Goto("item_axes")
    /\ item' = NoItem
    /\ UNCHANGED <<input, buf, local, self, rec, returned>>

\* lines 186-190: x_axis .. height, then 12 unknown bytes
ReadItemAxes ==
    /\ pc = "item_axes"
    /\ LET raw == ReadBytes(buf, pos, ItemAxesLen)
           p1 == pos + Len(raw)
       IN IF Len(raw) # ItemAxesLen
          THEN pos' = p1 /\ RaiseEof("item_axes") /\ item' = item
          ELSE /\ pos' = Seek(p1, ItemSkipB)
               /\ item' = [item EXCEPT !.metadata.axes = Words(raw, 8)]
               /\ Goto("item_dwell")
    /\ UNCHANGED <<input, buf, local, self, rec, returned, log>>

\* lines 191-194: accumulation_times and dwell_time, then 4 unknown bytes
ReadItemDwell ==
    /\ pc = "item_dwell"
    /\ LET raw == ReadBytes(buf, pos, ItemDwellLen)
           p1 == pos + Len(raw)
       IN IF Len(raw) # ItemDwellLen
          THEN pos' = p1 /\ RaiseEof("item_dwell") /\ item' = item
          ELSE /\ pos' = Seek(p1, ItemSkipC)
               /\ item' = [item EXCEPT !.metadata.dwell = Words(raw, 2)]
               /\ Goto("item_z")
    /\ UNCHANGED <<input, buf, local, self, rec, returned, log>>

\* lines 195-196: the 49 integers of z_axis, then 40 unknown bytes
ReadItemZAxis ==
    /\ pc = "item_z"
    /\ LET raw == ReadBytes(buf, pos, ZAxisLen)
           p1 == pos + Len(raw)
       IN IF Len(raw) # ZAxisLen
          THEN pos' = p1 /\ RaiseEof("item_z") /\ item' = item
          ELSE /\ pos' = Seek(p1, ItemSkipD)
               /\ item' = [item EXCEPT !.metadata.z_axis = Words(raw, ZAxisCount)]
               /\ Goto("item_cond")
    /\ UNCHANGED <<input, buf, local, self, rec, returned, log>>

\* line 197: condition_file
ReadConditionFile ==
    /\ pc = "item_cond"
    /\ LET r == read_c_hash_string(buf, pos)
       IN /\ pos' = r.pos
          /\ log' = [log EXCEPT !.str = [seen |-> TRUE, at |-> pos] @@ r]
          /\ IF r.ok
             THEN /\ item' = [item EXCEPT !.metadata.condition_file = r.str]
                  /\ Goto("item_count")
             ELSE item' = item /\ RaiseEof("item_cond")
    /\ UNCHANGED <<input, buf, local, self, rec, returned>>

\* lines 198-199: the number of measurement records
ReadRecordCount ==
    /\ pc = "item_count"
    /\ LET raw == ReadBytes(buf, pos, I32Len)
       IN /\ pos' = pos + Len(raw)
          /\ IF Len(raw) # I32Len
             THEN RaiseEof("item_count") /\ UNCHANGED <<local, item, log>>
             ELSE /\ local' = [local EXCEPT !.n_of_items = I32(raw)]
                  /\ item' = [item EXCEPT !.data = <<>>]
                  /\ log' = [log EXCEPT !.counts = Append(@, I32(raw)),
                                        !.str = NoStr]
                  /\ Goto("item_data")
    /\ UNCHANGED <<input, buf, self, rec, returned>>

\* line 200: the loop over the declared records has turns left
MoreRecords == Len(item.data) < local.n_of_items

(* -------------------------- WDSDatasetItem.read_item ------------------ *)

\* lines 207-215: the 76-byte block, then 24 unknown bytes
ReadItemFields ==
    /\ pc = "item_data"
    /\ MoreRecords
    /\ LET raw == ReadBytes(buf, pos, RecFieldsLen)
           p1 == pos + Len(raw)
       IN IF Len(raw) # RecFieldsLen
          THEN pos' = p1 /\ RaiseEof("rec_fields") /\ rec' = NoRec
          ELSE /\ pos' = Seek(p1, RecSkip)
               /\ rec' = [NoRec EXCEPT !.head = Words(raw, 19)]
               /\ Goto("rec_tail")
    /\ log' = [log EXCEPT !.arr = NoArr]
    /\ UNCHANGED <<input, buf, local, self, item, returned>>

\* lines 216-223 and 201: the 24-byte block, the sample data, 124 unknown
\* bytes; the record is returned and appended to the item's data
ReadItemData ==
    /\ pc = "rec_tail"
    /\ LET raw == ReadBytes(buf, pos, RecTailLen)
           p1 == pos + Len(raw)
       IN IF Len(raw) # RecTailLen
          THEN pos' = p1 /\ RaiseEof("rec_tail") /\ UNCHANGED <<rec, item, log>>
          ELSE LET size == Word(raw, 6)
                   bytes == ReadBytes(buf, p1, size)
                   p2 == p1 + Len(bytes)
                   arr == fromstring(bytes)
                   filled == [rec EXCEPT !.tail = Words(raw, 5),
                                         !.data_array_size = size]
               IN /\ log' = [log EXCEPT !.arr = [seen |-> TRUE, size |-> size,
                                                 left |-> Avail(buf, p1),
                                                 after |-> p1,
                                                 nread |-> Len(bytes)]]
                  /\ IF arr.ok
                     THEN /\ pos' = Seek(p2, RecTrailer)
                          /\ rec' = [filled EXCEPT !.data = arr.data,
                                                   !.complete = TRUE]
                          /\ item' = [item EXCEPT !.data = Append(@, rec')]
                          /\ Goto("item_data")
                     ELSE /\ pos' = p2
                          /\ rec' = filled
                          /\ item' = item
                          /\ Raise("ValueError", "", 0, 0, "rec_tail")
    /\ UNCHANGED <<input, buf, local, self, returned>>

\* lines 202-203 and 174: the item's name, 316 unknown bytes; the item is
\* constructed and appended to the datasets
ReadItemName ==
    /\ pc = "item_data"
    /\ ~MoreRecords
    /\ LET r == read_c_hash_string(buf, pos)
       IN /\ IF r.ok
             THEN /\ pos' = Seek(r.pos, ItemTrailer)
                  /\ item' = [item EXCEPT !.name = r.str]
                  /\ self' = [self EXCEPT !.datasets = Append(@, item')]
                  /\ log' = [log EXCEPT !.str = [seen |-> TRUE, at |-> pos] @@ r,
                                        !.itemEnd = Append(@, pos')]
                  /\ Goto("items")
             ELSE /\ pos' = r.pos
                  /\ log' = [log EXCEPT !.str = [seen |-> TRUE, at |-> pos] @@ r]
                  /\ UNCHANGED <<item, self>>
                  /\ RaiseEof("item_name")
    /\ UNCHANGED <<input, buf, local, rec, returned>>

\* the constructor returns: the caller now holds the object
Finish ==
    /\ pc = "items"
    /\ ~MoreItems
    /\ returned' = <<self>>
    /\ Goto("done")
    /\ UNCHANGED <<input, buf, pos, local, self, item, rec, log>>

Next ==
    \/ ReadPrologue
    \/ ToType
    \/ ReadComment
    \/ ReadChange
    \/ CheckFileType
    \/ ReadTopBlock
    \/ ReadItemStruct
    \/ ReadItemAxes
    \/ ReadItemDwell
    \/ ReadItemZAxis
    \/ ReadConditionFile
    \/ ReadRecordCount
    \/ ReadItemFields
    \/ ReadItemData
    \/ ReadItemName
    \/ Finish

Spec == Init /\ [][Next]_vars


(* ------------------------------ the claims ---------------------------- *)

\* sizes of the structures of a file description, as the format declares them
HeaderLenOf(f) ==
    12 + f.d + 28 + 4
      + SumSeq([j \in 1..Len(f.changes) |-> 12 + f.changes[j].change_len])

RecLenOf(r) == 76 + 24 + 24 + r.size + 124

ItemLenOf(it) ==
    628 + Len(it.cond) + Len(it.name)
      + SumSeq([j \in 1..Len(it.recs) |-> RecLenOf(it.recs[j])])

\* where item k of the description ends (k = 0: where the top block ends)
ItemsEnd(f, k) == HeaderLenOf(f) + 28 + SumSeq([i \in 1..k |-> ItemLenOf(f.items[i])])

FullLen == Len(EncFile(input.file))

\* the header of the input is consistent and wholly in the buffer
HeaderIntact ==
    LET f == input.file
    IN /\ f.tag = Fxs
       /\ f.d = Len(f.comment) /\ DecodeOk(f.comment)
       /\ f.n_changes = Len(f.changes)
       /\ \A j \in 1..Len(f.changes) :
             /\ f.changes[j].change_len = Len(f.changes[j].comment)
             /\ DecodeOk(f.changes[j].comment)
       /\ input.cut >= HeaderLenOf(f)

HeaderSteps == {"start", "to_type", "comment", "changes"}

\* C1: a buffer of at least 12 bytes whose bytes 1..3 are not "fxs" fails
\* with BadMagic with the cursor at offset 12: the comment, the reserved
\* region and the change log are never read.
C1_BadMagicAtPrologue ==
    (Len(buf) >= 12 /\ SubSeq(buf, 2, 4) # Fxs /\ pc # "start")
      => /\ pc = "raised"
         /\ exc.type = "IOError" /\ exc.kind = "BadMagic" /\ exc.where = "start"
         /\ pos = 12
         /\ self.file_comment = <<>> /\ self.changes = <<>>
         /\ log.headerEnd = -1

C1_Witness ==
    /\ Len(buf) > 12 /\ SubSeq(buf, 2, 4) = <<102, 120, 116>>
    /\ pc = "raised" /\ exc.kind = "BadMagic" /\ pos = 12

Discriminator == I32(SubSeq(buf, log.headerEnd + 1, log.headerEnd + 4))

\* C3: with a valid type-6 header and a discriminator other than 11 (the 4
\* bytes present, whatever follows them), the parse fails with
\* UnexpectedStructType carrying the discriminator and the offset of the
\* discriminator field (at or right after its 4 bytes), and no item is decoded.
C3_DiscriminatorAlone ==
    (/\ log.headerEnd >= 0 /\ self.cameca_bin_file_type = 6 /\ pc # "top"
     /\ Len(buf) >= log.headerEnd + 4
     /\ Discriminator # 11)
      => /\ pc = "raised"
         /\ exc.kind = "UnexpectedStructType"
         /\ exc.value = Discriminator
         /\ exc.address \in {log.headerEnd, log.headerEnd + 4}
         /\ self.datasets = <<>>

\* C4: a record whose data_array_size is negative or larger than what is
\* left after the field fails with InvalidArrayLength, reporting the cursor
\* position right after the field; no record is produced.
C4_ArrayLengthGuard ==
    (log.arr.seen /\ (log.arr.size < 0 \/ log.arr.size > log.arr.left))
      => /\ pc = "raised"
         /\ exc.kind = "InvalidArrayLength"
         /\ exc.address = log.arr.after
         /\ ~rec.complete

\* where the last fixed-size read of a well-formed description ends: the
\* length field of the last item's name, or the top block without items
LastFixedReadEnd(f) ==
    IF f.items = <<>> THEN HeaderLenOf(f) + 28
    ELSE ItemsEnd(f, Len(f.items)) - 316 - Len(f.items[Len(f.items)].name)

\* C5: a well-formed type-6 file cut short of a fixed-size read after the
\* header fails with UnexpectedEof, never returns, and the cursor never
\* goes past the end of the buffer.
C5_TruncatedInput ==
    (/\ WellFormed(input.file)
     /\ input.cut >= HeaderLenOf(input.file)
     /\ input.cut < LastFixedReadEnd(input.file))
      => /\ pos <= Len(buf)
         /\ pc # "done"
         /\ pc = "raised" => exc.kind = "UnexpectedEof"

\* C6: a length-prefixed string read with length L fails with InvalidLength
\* and consumes no payload when L < 0, fails with UnexpectedEof when fewer
\* than L bytes are left, and otherwise consumes exactly 4 + L bytes.
C6_LengthPrefixedString ==
    (log.str.seen /\ log.str.ok)
      => IF log.str.str_len < 0
         THEN pc = "raised" /\ exc.kind = "InvalidLength" /\ log.str.nread = 0
         ELSE IF log.str.str_len > log.str.left
         THEN pc = "raised" /\ exc.kind = "UnexpectedEof"
         ELSE /\ log.str.nread = log.str.str_len
              /\ log.str.pos = log.str.at + 4 + log.str.str_len

\* C7: a well-formed file with N items, item i holding M_i records, parses
\* to N datasets in file order, dataset i with M_i records, its name and
\* condition_file being the text of the declared payload bytes.
C7_EndToEnd ==
    (WellFormed(input.file) /\ input.cut = FullLen /\ pc = "done")
      => LET f == input.file
         IN /\ returned = <<self>>
            /\ Len(self.datasets) = Len(f.items)
            /\ \A i \in 1..Len(self.datasets) :
                  /\ Len(self.datasets[i].data) = Len(f.items[i].recs)
                  /\ self.datasets[i].name = f.items[i].name
                  /\ self.datasets[i].metadata.condition_file = f.items[i].cond

\* C8: a parse ends either with the complete object (all declared datasets,
\* each with all its declared records) or with one exception; until it has
\* ended well the caller holds nothing, however many items were decoded.
C8_AllOrNothing ==
    /\ pc # "done" => returned = <<>>
    /\ pc = "raised" <=> exc # NoExc
    /\ pc = "done"
         => /\ returned = <<self>>
            /\ Len(self.datasets) = Max(self.number_of_items, 0)
            /\ Len(log.counts) = Len(self.datasets)
            /\ \A i \in 1..Len(self.datasets) :
                  /\ Len(self.datasets[i].data) = Max(log.counts[i], 0)
                  /\ \A j \in 1..Len(self.datasets[i].data) :
                        self.datasets[i].data[j].complete

C8_Witness ==
    /\ pc = "raised" /\ returned = <<>>
    /\ Len(self.datasets) = 1 /\ Len(self.datasets[1].data) = 1

\* C9 as stated: a decoded record whose data_array_size is non-negative and
\* fits in the buffer has data_array_size elements of sample data.
C9_ElementCountIsSize ==
    (log.arr.seen /\ rec.complete
       /\ log.arr.size >= 0 /\ log.arr.size <= log.arr.left)
      => Len(rec.data) = log.arr.size

\* C9 amended: when data_array_size is non-negative and fits, the sample
\* data is made of exactly data_array_size bytes, data_array_size / 4
\* elements, if that is a multiple of 4; if not, no record is decoded and
\* the array conversion fails with ValueError.
C9_ByteCountIsSize ==
    (log.arr.seen /\ log.arr.size >= 0 /\ log.arr.size <= log.arr.left)
      => IF log.arr.size % 4 = 0
         THEN /\ rec.complete
              /\ rec.data_array_size = log.arr.size
              /\ log.arr.nread = log.arr.size
              /\ 4 * Len(rec.data) = log.arr.size
         ELSE /\ ~rec.complete
              /\ pc = "raised" /\ exc.type = "ValueError"

C9_Witness ==
    /\ log.arr.seen /\ log.arr.size = 8 /\ log.arr.left > 8
    /\ rec.complete /\ Len(rec.data) = 2

\* C10: on a well-formed file every structure is consumed at its declared
\* size: the header ends at 12 + comment + 28 + 4 + sum(12 + change), the
\* top block takes 28, item i starts where item i-1 ended and takes
\* 628 + strings + sum(248 + data_array_size), and the final cursor is the
\* sum of them all.
C10_ExactConsumption ==
    (WellFormed(input.file) /\ input.cut = FullLen)
      => LET f == input.file
         IN /\ log.headerEnd >= 0 => log.headerEnd = HeaderLenOf(f)
            /\ \A i \in 1..Len(log.itemStart) : log.itemStart[i] = ItemsEnd(f, i - 1)
            /\ \A i \in 1..Len(log.itemEnd) :
                  /\ log.itemEnd[i] = ItemsEnd(f, i)
                  /\ log.itemEnd[i] - log.itemStart[i] = ItemLenOf(f.items[i])
            /\ pc = "items" => pos = ItemsEnd(f, Len(self.datasets))
            /\ pc = "done" => pos = ItemsEnd(f, Len(f.items))

C10_Witness ==
    /\ WellFormed(input.file) /\ input.cut = FullLen
    /\ pc = "done"
    /\ Len(log.itemEnd) = 2
    /\ Len(self.datasets[1].data) = 2
    /\ input.file.changes # <<>> \/ input.file.items[1].cond # <<>>

=============================================================================
